---- MODULE Spec2Model ----
(***************************************************************************)
(* A model of the pgx / pgrx C shim: the exported wrappers that forward a  *)
(* caller's requests to PostgreSQL macros and inline functions.            *)
(*                                                                         *)
(*   - the raise entry points pgx_ereport, pgx_elog, pgx_elog_error and    *)
(*     the older six-argument pgx_ereport / pg_rs_bridge_ereport;          *)
(*   - pgx_deconstruct_row_type;                                           *)
(*   - the spinlock wrappers;                                              *)
(*   - pgx_GetMemoryContextChunk.                                          *)
(*                                                                         *)
(* The host (PostgreSQL) is not part of the repository.  The host          *)
(* functions the shim calls are modelled at their call sites by the        *)
(* contract elog.h / htup_details.h / spin.h / memutils.h give them.       *)
(***************************************************************************)
EXTENDS Integers, Sequences, FiniteSets, TLC

(***************************************************************************)
(* Bounds of the model.                                                    *)
(***************************************************************************)
MaxStrLen == 2
MaxDepth == 2
MaxCols == 3
NumLocks == 2
NumChunks == 3

(***************************************************************************)
(* C strings: sequences of characters.  A char * is NULL or points to one. *)
(***************************************************************************)
Alphabet == {"%", "s"}

RECURSIVE StringsOfLen(_)
StringsOfLen(n) ==
    IF n = 0 THEN {<< >>}
    ELSE {Append(s, c) : s \in StringsOfLen(n - 1), c \in Alphabet}

Strings == UNION {StringsOfLen(n) : n \in 0..MaxStrLen}

NULL == [isnull |-> TRUE, s |-> << >>]
Ptr(s) == [isnull |-> FALSE, s |-> s]
CharPtrs == {NULL} \cup {Ptr(s) : s \in Strings}
Messages == {Ptr(s) : s \in Strings \ {<< >>}}      \* a message is never NULL or empty

(***************************************************************************)
(* printf-style formatting, as the host's errmsg / errdetail /             *)
(* errcontext_msg apply it to their format argument.  %% writes a percent  *)
(* sign, %s consumes a string argument, %d an int argument.  The status is *)
(* "ok", "noarg" (a conversion with no matching argument: the formatter    *)
(* reads an argument that was never passed) or "bad" (an unknown           *)
(* conversion or a trailing %).                                            *)
(***************************************************************************)
SArg(s) == [t |-> "s", str |-> s, int |-> 0]
DArg(n) == [t |-> "d", str |-> << >>, int |-> n]

Digit(n) == <<"0", "1", "2", "3", "4", "5", "6", "7", "8", "9">>[n + 1]

RECURSIVE IntToStr(_)
IntToStr(n) ==
    IF n < 10 THEN <<Digit(n)>>
    ELSE Append(IntToStr(n \div 10), Digit(n % 10))

Formatted(st, text) == [st |-> st, text |-> text]
Cat(prefix, r) == IF r.st = "ok" THEN Formatted("ok", prefix \o r.text) ELSE r

RECURSIVE Format(_, _)
Format(fmt, args) ==
    IF fmt = << >> THEN Formatted("ok", << >>)
    ELSE IF Head(fmt) # "%" THEN Cat(<<Head(fmt)>>, Format(Tail(fmt), args))
    ELSE IF Len(fmt) = 1 THEN Formatted("bad", << >>)
    ELSE LET c == fmt[2]
             rest == SubSeq(fmt, 3, Len(fmt))
         IN  IF c = "%" THEN Cat(<<"%">>, Format(rest, args))
             ELSE IF c \notin {"s", "d"} THEN Formatted("bad", << >>)
             ELSE IF args = << >> \/ Head(args).t # c THEN Formatted("noarg", << >>)
             ELSE IF c = "s"
                  THEN Cat(Head(args).str, Format(rest, Tail(args)))
                  ELSE Cat(IntToStr(Head(args).int), Format(rest, Tail(args)))

(***************************************************************************)
(* Host constants and host state read by the reporting functions.          *)
(***************************************************************************)
ERROR == 20
Levels == {18, 19, ERROR, 21}           \* NOTICE, WARNING, ERROR, FATAL
MinMessages == {18, 19}                 \* settings of the host's output threshold
Codes == {5}
Files == {<<"s">>}
Funcnames == {<<"s", "s">>}
Linenos == {42}
Colnos == {7}

(***************************************************************************)
(* Version epochs: the IS_PG_* macros over PG_VERSION_NUM.                 *)
(***************************************************************************)
Versions == {109999, 110000, 129999, 130000}

IS_PG_10(v) == v >= 100000 /\ v < 110000
IS_PG_11(v) == v >= 110000 /\ v < 120000
\* A slip in the lower bound of IS_PG_12.
IS_PG_12_from11(v) == v >= 110000 /\ v < 130000
IS_PG_12(v) == v >= 120000 /\ v < 130000
IS_PG_13(v) == v >= 130000 /\ v < 140000

\* #if (IS_PG_11 || IS_PG_12) ... #else ... #endif in pgx_ereport
OlderProtocol(v) == IS_PG_11(v) \/ IS_PG_12(v)

VARIABLES
    pgVersionNum,       \* PG_VERSION_NUM of the build
    haveConstantP,      \* HAVE__BUILTIN_CONSTANT_P of the build
    minMessages,        \* host: the level below which errstart rejects a report
    depth,              \* pending nested caller frames above the host's recovery point
    pc,                 \* where control is: "running" (caller code), "returned" (a
                        \* raise call has just returned to its caller), "recovering"
                        \* (the host's recovery point), "crashed" or "unreachable"
                        \* (the process is lost)
    call,               \* the last raise call: entry point and arguments
    result,             \* how the last raise call ended
    emitted,            \* the log records the host produced for the last raise call
    reached,            \* times the host's divergence target was entered by the last call
    firstProtocol       \* the protocol the first pgx_ereport call of the process used

VARIABLES
    rowIn,              \* pgx_deconstruct_row_type: the descriptor and packed row of the last call
    rowOut              \* ... and what the call returned and which host calls it made

raiseVars == <<pgVersionNum, haveConstantP, minMessages, depth, pc, call, result,
               emitted, reached, firstProtocol>>
VARIABLES
    slock,              \* host shared memory: the slock_t at each lock address
    lastLockOp,         \* per lock, the last init / acquire / release made on it
    spinOp              \* the last spinlock wrapper call and what it returned

VARIABLES
    mem,                \* host allocator: each chunk's header word, CurrentMemoryContext
    owner,              \* per chunk address, the arena the live allocation belongs to
    arenaOp,            \* the last pgx_GetMemoryContextChunk call and what it returned
    arenaSeq            \* flips at every pgx_GetMemoryContextChunk call

VARIABLES
    epc,                \* pgx_ereport, statement by statement: where control is
    ecall,              \* ... the arguments of the call its control flow reads
    pending,            \* ... the field setters of the report not called yet
    steps               \* ... the host calls made so far, in order

rowVars == <<rowIn, rowOut>>
spinVars == <<slock, lastLockOp, spinOp>>
arenaVars == <<mem, owner, arenaOp, arenaSeq>>
stepVars == <<epc, ecall, pending, steps>>
vars == <<raiseVars, rowVars, spinVars, arenaVars, stepVars>>

(***************************************************************************)
(* The host's reporting protocol.  errstart accepts every report at ERROR  *)
(* or above and the lower ones the output threshold lets through; the      *)
(* field setters format into the pending report; errfinish emits it and,   *)
(* at ERROR or above, does not return.                                     *)
(***************************************************************************)
errstart(elevel, min) == elevel >= ERROR \/ elevel >= min

\* One field setter's possible results.  A format that is defined for the
\* arguments given sets the field to the formatted text.  A conversion that
\* reads an argument never passed yields any text or a crash; a malformed
\* format yields any text or makes the host's formatter raise its own ERROR.
Field(kind, p) == [kind |-> kind, p |-> p]
ArbitraryTexts == {<< >>, <<"s">>, <<"%">>}

SetField(fmt, args) ==
    LET r == Format(fmt, args)
    IN  IF r.st = "ok" THEN {Field("ok", Ptr(r.text))}
        ELSE {Field(IF r.st = "noarg" THEN "crash" ELSE "error", NULL)}
             \cup {Field("ok", Ptr(g)) : g \in ArbitraryTexts}

errmsg(fmt, args) == SetField(fmt, args)
errdetail(fmt, args) == SetField(fmt, args)
errcontext_msg(fmt, args) == SetField(fmt, args)
NotSet == {Field("ok", NULL)}

\* errfinish returning to its caller at every level.
errfinish_returns(elevel) == "returned"

errfinish(elevel) == IF elevel >= ERROR THEN "diverged" ELSE "returned"

Outcome(res, recs) == [res |-> res, recs |-> recs]

\* An accepted report: the fields are set, then errfinish.
Report(elevel, code, M, D, C, file, lineno, funcname) ==
    {IF "crash" \in {m.kind, d.kind, c.kind}
     THEN Outcome("crashed", << >>)
     ELSE IF "error" \in {m.kind, d.kind, c.kind}
     THEN Outcome("diverged", << >>)
     ELSE Outcome(errfinish(elevel),
                  <<[elevel |-> elevel, sqlerrcode |-> code, message |-> m.p,
                     detail |-> d.p, context |-> c.p, filename |-> file,
                     lineno |-> lineno, funcname |-> funcname]>>)
     : m \in M, d \in D, c \in C}

\* The statement after errfinish: pg_unreachable() under its guard.
AfterFinish(constp, level) ==
    IF constp
    THEN {Outcome(IF k /\ level >= ERROR THEN "unreachable" ELSE "returned", << >>)
          : k \in BOOLEAN}                      \* k: __builtin_constant_p(level)
    ELSE {Outcome(IF level >= ERROR THEN "unreachable" ELSE "returned", << >>)}

\* What follows the if (errstart(...)) { ... } block for each way it ends.
Then(outs, constp, level) ==
    UNION {IF o.res = "returned"
           THEN {Outcome(a.res, o.recs) : a \in AfterFinish(constp, level)}
           ELSE {o} : o \in outs}

Fmt_s == <<"%", "s">>

(***************************************************************************)
(* pgx_ereport (src/pgx-pg-sys/cshim/pgx-cshim.c), one operator for each   *)
(* of the four preprocessor variants.  Each gives the set of ways the call *)
(* can end.  The arguments of the older protocol's errfinish are           *)
(* evaluated before errfinish runs.                                        *)
(***************************************************************************)

\* #if (IS_PG_11 || IS_PG_12), #ifdef HAVE__BUILTIN_CONSTANT_P
pgx_ereport_older_constp(min, level, code, message, detail, funcname, file, lineno, context) ==
    Then(IF errstart(level, min)
         THEN IF detail # NULL
              THEN IF context # NULL
                   THEN Report(level, code, errmsg(Fmt_s, <<SArg(message.s)>>),
                               errdetail(Fmt_s, <<SArg(detail.s)>>),
                               errcontext_msg(Fmt_s, <<SArg(context.s)>>),
                               file, lineno, funcname)
                   ELSE Report(level, code, errmsg(Fmt_s, <<SArg(message.s)>>),
                               errdetail(Fmt_s, <<SArg(detail.s)>>), NotSet,
                               file, lineno, funcname)
              ELSE IF context # NULL
                   THEN Report(level, code, errmsg(Fmt_s, <<SArg(message.s)>>),
                               NotSet, errcontext_msg(Fmt_s, <<SArg(context.s)>>),
                               file, lineno, funcname)
                   ELSE Report(level, code, errmsg(Fmt_s, <<SArg(message.s)>>),
                               NotSet, NotSet, file, lineno, funcname)
         ELSE {Outcome("returned", << >>)},
         TRUE, level)

\* #if (IS_PG_11 || IS_PG_12), HAVE__BUILTIN_CONSTANT_P not defined.
\* With detail and context both given, context is passed to errcontext_msg
\* as the format itself.
pgx_ereport_older_noconstp(min, level, code, message, detail, funcname, file, lineno, context) ==
    Then(IF errstart(level, min)
         THEN IF detail # NULL
              THEN IF context # NULL
                   THEN Report(level, code, errmsg(Fmt_s, <<SArg(message.s)>>),
                               errdetail(Fmt_s, <<SArg(detail.s)>>),
                               errcontext_msg(context.s, << >>),
                               file, lineno, funcname)
                   ELSE Report(level, code, errmsg(Fmt_s, <<SArg(message.s)>>),
                               errdetail(Fmt_s, <<SArg(detail.s)>>), NotSet,
                               file, lineno, funcname)
              ELSE IF context # NULL
                   THEN Report(level, code, errmsg(Fmt_s, <<SArg(message.s)>>),
                               NotSet, errcontext_msg(Fmt_s, <<SArg(context.s)>>),
                               file, lineno, funcname)
                   ELSE Report(level, code, errmsg(Fmt_s, <<SArg(message.s)>>),
                               NotSet, NotSet, file, lineno, funcname)
         ELSE {Outcome("returned", << >>)},
         FALSE, level)

\* The PG 13+ body with the errdetail step left out.
NewerBody_noDetail(level, code, message, detail, funcname, file, lineno, context) ==
    Report(level, code, errmsg(Fmt_s, <<SArg(message.s)>>), NotSet,
           IF context # NULL THEN errcontext_msg(Fmt_s, <<SArg(context.s)>>) ELSE NotSet,
           file, lineno, funcname)

\* The PG 13+ body: errcode, errmsg, optional errdetail, optional
\* errcontext_msg, errfinish(file, lineno, funcname).
NewerBody(level, code, message, detail, funcname, file, lineno, context) ==
    Report(level, code, errmsg(Fmt_s, <<SArg(message.s)>>),
           IF detail # NULL THEN errdetail(Fmt_s, <<SArg(detail.s)>>) ELSE NotSet,
           IF context # NULL THEN errcontext_msg(Fmt_s, <<SArg(context.s)>>) ELSE NotSet,
           file, lineno, funcname)

\* #else (not PG 11 / 12), #ifdef HAVE__BUILTIN_CONSTANT_P
pgx_ereport_newer_constp(min, level, code, message, detail, funcname, file, lineno, context) ==
    Then(IF errstart(level, min)
         THEN NewerBody(level, code, message, detail, funcname, file, lineno, context)
         ELSE {Outcome("returned", << >>)},
         TRUE, level)

\* #else (not PG 11 / 12), HAVE__BUILTIN_CONSTANT_P not defined.  This
\* variant passes an identifier, domain, that the function does not declare,
\* to errstart; the message domain plays no part in what is modelled here.
pgx_ereport_newer_noconstp(min, level, code, message, detail, funcname, file, lineno, context) ==
    Then(IF errstart(level, min)
         THEN NewerBody(level, code, message, detail, funcname, file, lineno, context)
         ELSE {Outcome("returned", << >>)},
         FALSE, level)

\* The variant a build compiles, and the protocol it speaks.
Via(protocol, outs) == {[res |-> o.res, recs |-> o.recs, protocol |-> protocol] : o \in outs}

pgx_ereport(v, constp, min, level, code, message, detail, funcname, file, lineno, context) ==
    IF OlderProtocol(v)
    THEN Via("older",
             IF constp
             THEN pgx_ereport_older_constp(min, level, code, message, detail, funcname, file, lineno, context)
             ELSE pgx_ereport_older_noconstp(min, level, code, message, detail, funcname, file, lineno, context))
    ELSE Via("newer",
             IF constp
             THEN pgx_ereport_newer_constp(min, level, code, message, detail, funcname, file, lineno, context)
             ELSE pgx_ereport_newer_noconstp(min, level, code, message, detail, funcname, file, lineno, context))

(***************************************************************************)
(* The host's elog(level, fmt, ...) and ereport(level, (...)) macros, as   *)
(* the simpler entry points use them.  The report's location is the shim's *)
(* own __FILE__ / __LINE__ / function.                                     *)
(***************************************************************************)
ShimFile == <<"c">>

elog(constp, min, level, fmt, args, line, func) ==
    Then(IF errstart(level, min)
         THEN Report(level, 0, errmsg(fmt, args), NotSet, NotSet,
                     ShimFile, line, func)
         ELSE {Outcome("returned", << >>)},
         constp, level)

\* void pgx_elog(int32 level, char *message) { elog(level, "%s", message); }
pgx_elog(constp, min, level, message) ==
    elog(constp, min, level, Fmt_s, <<SArg(message.s)>>, 43, <<"pgx_elog">>)

\* void pgx_elog_error(char *message) { elog(ERROR, "%s", message); }
pgx_elog_error(constp, min, message) ==
    elog(constp, min, ERROR, Fmt_s, <<SArg(message.s)>>, 48, <<"pgx_elog_error">>)

\* The six-argument pgx_ereport (src/pgx-cshim/pgx-cshim.c) and
\* pg_rs_bridge_ereport (src/bridge-c-shim/bridge-c-shim.c):
\*   ereport(level, (errcode(code), errmsg("%s", message),
\*                   errcontext_msg("%s:%d:%d", file, lineno, colno)));
Fmt_location == <<"%", "s", ":", "%", "d", ":", "%", "d">>

pgx_ereport_legacy(constp, min, level, code, message, file, lineno, colno) ==
    Then(IF errstart(level, min)
         THEN Report(level, code, errmsg(Fmt_s, <<SArg(message.s)>>), NotSet,
                     errcontext_msg(Fmt_location, <<SArg(file), DArg(lineno), DArg(colno)>>),
                     ShimFile, 29, <<"pgx_ereport">>)
         ELSE {Outcome("returned", << >>)},
         constp, level)

(***************************************************************************)
(* The execution context.  The host owns one recovery point; caller frames *)
(* nest above it.  A raise call is made by the innermost frame.            *)
(***************************************************************************)
NoCall == [entry |-> "none", level |-> 0, code |-> 0, message |-> NULL,
           detail |-> NULL, context |-> NULL, file |-> << >>, lineno |-> 0,
           colno |-> 0, funcname |-> << >>, preDepth |-> 0, protocol |-> "none"]

InitRaise ==
    /\ pgVersionNum \in Versions
    /\ haveConstantP \in BOOLEAN
    /\ minMessages = 18
    /\ depth = 0
    /\ pc = "running"
    /\ call = NoCall
    /\ result = "none"
    /\ emitted = << >>
    /\ reached = 0
    /\ firstProtocol = "none"

ClearCall ==
    /\ call' = NoCall
    /\ result' = "none"
    /\ emitted' = << >>
    /\ reached' = 0

\* The caller enters a nested call context.
CallerEnter ==
    /\ UNCHANGED <<rowVars, spinVars, arenaVars, stepVars>>
    /\ pc = "running"
    /\ depth < MaxDepth
    /\ depth' = depth + 1
    /\ UNCHANGED <<pgVersionNum, haveConstantP, minMessages, pc, call, result,
                   emitted, reached, firstProtocol>>

\* The innermost caller frame finishes and returns to the frame below it.
CallerReturn ==
    /\ UNCHANGED <<rowVars, spinVars, arenaVars, stepVars>>
    /\ pc = "running"
    /\ depth >= 1
    /\ depth' = depth - 1
    /\ UNCHANGED <<pgVersionNum, haveConstantP, minMessages, pc, call, result,
                   emitted, reached, firstProtocol>>

\* The step sequenced after a raise call in the caller: it runs when, and
\* only when, the call has returned.
CallerContinue ==
    /\ UNCHANGED <<rowVars, spinVars, arenaVars, stepVars>>
    /\ pc = "returned"
    /\ pc' = "running"
    /\ ClearCall
    /\ UNCHANGED <<pgVersionNum, haveConstantP, minMessages, depth, firstProtocol>>

\* The host handles a diverged report at its recovery point and goes on to
\* its next command.
HostRecover ==
    /\ UNCHANGED <<rowVars, spinVars, arenaVars, stepVars>>
    /\ pc = "recovering"
    /\ pc' = "running"
    /\ ClearCall
    /\ UNCHANGED <<pgVersionNum, haveConstantP, minMessages, depth, firstProtocol>>

\* The host's output threshold is changed (a configuration setting).
HostSetMinMessages ==
    /\ UNCHANGED <<rowVars, spinVars, arenaVars, stepVars>>
    /\ pc = "running"
    /\ \E m \in MinMessages \ {minMessages} : minMessages' = m
    /\ UNCHANGED <<pgVersionNum, haveConstantP, depth, pc, call, result, emitted,
                   reached, firstProtocol>>

\* Where control is after a raise call that ended as res.
PcAfter(res) ==
    IF res = "returned" THEN "returned"
    ELSE IF res = "diverged" THEN "recovering"
    ELSE res

\* The effect of one raise call that ends as outcome o.  A divergence
\* transfers control to the host's recovery point: every pending caller
\* frame is gone.  A crash or an executed pg_unreachable() loses the process.
Raise(c, o) ==
    /\ call' = c
    /\ result' = o.res
    /\ emitted' = o.recs
    /\ reached' = IF o.res = "diverged" THEN 1 ELSE 0
    /\ depth' = IF o.res = "diverged" THEN 0 ELSE depth
    /\ pc' = PcAfter(o.res)
    /\ UNCHANGED <<pgVersionNum, haveConstantP, minMessages>>

Call_pgx_ereport ==
    /\ UNCHANGED <<rowVars, spinVars, arenaVars, stepVars>>
    /\ pc = "running"
    /\ depth >= 1
    /\ \E level \in Levels, code \in Codes, message \in Messages,
          detail \in CharPtrs, context \in CharPtrs, funcname \in Funcnames,
          file \in Files, lineno \in Linenos :
          \E o \in pgx_ereport(pgVersionNum, haveConstantP, minMessages, level, code,
                               message, detail, funcname, file, lineno, context) :
             Raise([entry |-> "pgx_ereport", level |-> level, code |-> code,
                    message |-> message, detail |-> detail, context |-> context,
                    file |-> file, lineno |-> lineno, colno |-> 0,
                    funcname |-> funcname, preDepth |-> depth,
                    protocol |-> o.protocol], o)
    /\ firstProtocol' = IF firstProtocol = "none" THEN call'.protocol
                        ELSE firstProtocol

Call_pgx_elog ==
    /\ UNCHANGED <<rowVars, spinVars, arenaVars, stepVars>>
    /\ pc = "running"
    /\ depth >= 1
    /\ \E level \in Levels, message \in Messages :
          \E o \in pgx_elog(haveConstantP, minMessages, level, message) :
             Raise([NoCall EXCEPT !.entry = "pgx_elog", !.level = level,
                                  !.message = message, !.preDepth = depth], o)
    /\ UNCHANGED firstProtocol

Call_pgx_elog_error ==
    /\ UNCHANGED <<rowVars, spinVars, arenaVars, stepVars>>
    /\ pc = "running"
    /\ depth >= 1
    /\ \E message \in Messages :
          \E o \in pgx_elog_error(haveConstantP, minMessages, message) :
             Raise([NoCall EXCEPT !.entry = "pgx_elog_error", !.level = ERROR,
                                  !.message = message, !.preDepth = depth], o)
    /\ UNCHANGED firstProtocol

Call_pgx_ereport_legacy ==
    /\ UNCHANGED <<rowVars, spinVars, arenaVars, stepVars>>
    /\ pc = "running"
    /\ depth >= 1
    /\ \E level \in Levels, code \in Codes, message \in Messages,
          file \in Files, lineno \in Linenos, colno \in Colnos :
          \E o \in pgx_ereport_legacy(haveConstantP, minMessages, level, code,
                                      message, file, lineno, colno) :
             Raise([NoCall EXCEPT !.entry = "pgx_ereport_legacy", !.level = level,
                                  !.code = code, !.message = message, !.file = file,
                                  !.lineno = lineno, !.colno = colno,
                                  !.preDepth = depth], o)
    /\ UNCHANGED firstProtocol

(***************************************************************************)
(* pgx_ereport (src/pgx-pg-sys/cshim/pgx-cshim.c) statement by statement:  *)
(* one step for each host call it makes.                                   *)
(*                                                                         *)
(* Which host calls are made depends on the build, on level, on whether    *)
(* detail is NULL and on context; message and detail are only ever passed  *)
(* as the argument of a "%s" format.  On the older protocol the setters    *)
(* are arguments of the errfinish call: C leaves the order in which they   *)
(* are evaluated open, all of them are evaluated before errfinish runs.    *)
(* On the newer protocol they are statements, in the order written.        *)
(***************************************************************************)
HostCall(op, args, ret) == [op |-> op, args |-> args, ret |-> ret]

NoECall == [level |-> 0, hasDetail |-> FALSE, context |-> NULL]

\* errcode, errmsg, errdetail, errcontext_msg in the order of the source.
SetterRank(op) ==
    IF op = "errcode" THEN 1
    ELSE IF op = "errmsg" THEN 2
    ELSE IF op = "errdetail" THEN 3
    ELSE 4

\* The setters the accepted report calls: errdetail under detail != NULL,
\* errcontext_msg under context != NULL.
Setters(c) ==
    {"errcode", "errmsg"}
        \cup (IF c.hasDetail THEN {"errdetail"} ELSE {})
        \cup (IF c.context # NULL THEN {"errcontext_msg"} ELSE {})

\* The setter op may be the next host call.
MayCall(op) ==
    /\ epc = "accepted"
    /\ op \in pending
    /\ OlderProtocol(pgVersionNum) \/ \A q \in pending : SetterRank(op) <= SetterRank(q)

\* Where control is after a setter that ended as kind: a crash loses the
\* process, an error raised by the host's formatter goes to the host's
\* recovery point.
AfterSetter(kind) ==
    IF kind = "crash" THEN "crashed"
    ELSE IF kind = "error" THEN "diverged"
    ELSE "accepted"

CallSetter(op, args, kinds) ==
    /\ MayCall(op)
    /\ \E kind \in kinds :
          /\ steps' = Append(steps, HostCall(op, args, kind))
          /\ epc' = AfterSetter(kind)
    /\ pending' = pending \ {op}
    /\ UNCHANGED ecall

IdleSteps ==
    /\ epc = "idle"
    /\ ecall = NoECall
    /\ pending = {}
    /\ steps = << >>

\* pgx_ereport is called.
Enter_pgx_ereport ==
    /\ UNCHANGED <<raiseVars, rowVars, spinVars, arenaVars>>
    /\ epc = "idle"
    /\ \E level \in Levels, code \in Codes, message \in Messages,
          detail \in CharPtrs, context \in CharPtrs, funcname \in Funcnames,
          file \in Files, lineno \in Linenos :
          ecall' = [level |-> level, hasDetail |-> detail # NULL, context |-> context]
    /\ epc' = "entered"
    /\ pending' = {}
    /\ steps' = << >>

\* pg_prevent_errno_in_scope();
Step_pg_prevent_errno_in_scope ==
    /\ UNCHANGED <<raiseVars, rowVars, spinVars, arenaVars>>
    /\ epc = "entered"
    /\ ~OlderProtocol(pgVersionNum)
    /\ steps' = Append(steps, HostCall("pg_prevent_errno_in_scope", {}, "ok"))
    /\ epc' = "start"
    /\ UNCHANGED <<ecall, pending>>

\* if (errstart(level, file, lineno, funcname, NULL)) on the older protocol,
\* if (errstart(level, NULL)) on the newer.
Step_errstart ==
    /\ UNCHANGED <<raiseVars, rowVars, spinVars, arenaVars>>
    /\ epc = IF OlderProtocol(pgVersionNum) THEN "entered" ELSE "start"
    /\ LET ok == errstart(ecall.level, minMessages)
           args == IF OlderProtocol(pgVersionNum)
                   THEN {"level", "file", "lineno", "funcname"}
                   ELSE {"level"}
       IN  /\ steps' = Append(steps, HostCall("errstart", args,
                                              IF ok THEN "true" ELSE "false"))
           /\ epc' = IF ok THEN "accepted" ELSE "guard"
           /\ pending' = IF ok THEN Setters(ecall) ELSE {}
    /\ UNCHANGED ecall

\* errcode(code)
Step_errcode ==
    /\ UNCHANGED <<raiseVars, rowVars, spinVars, arenaVars>>
    /\ CallSetter("errcode", {"code"}, {"ok"})

\* errmsg("%s", message)
Step_errmsg ==
    /\ UNCHANGED <<raiseVars, rowVars, spinVars, arenaVars>>
    /\ \E message \in Messages :
          CallSetter("errmsg", {"message"},
                     {f.kind : f \in errmsg(Fmt_s, <<SArg(message.s)>>)})

\* errdetail("%s", detail)
Step_errdetail ==
    /\ UNCHANGED <<raiseVars, rowVars, spinVars, arenaVars>>
    /\ \E detail \in CharPtrs \ {NULL} :
          CallSetter("errdetail", {"detail"},
                     {f.kind : f \in errdetail(Fmt_s, <<SArg(detail.s)>>)})

\* errcontext_msg("%s", context); errcontext_msg(context) in the older
\* protocol's variant without HAVE__BUILTIN_CONSTANT_P when detail is given.
Step_errcontext_msg ==
    /\ UNCHANGED <<raiseVars, rowVars, spinVars, arenaVars>>
    /\ CallSetter("errcontext_msg", {"context"},
                  {f.kind : f \in
                      IF OlderProtocol(pgVersionNum) /\ ~haveConstantP /\ ecall.hasDetail
                      THEN errcontext_msg(ecall.context.s, << >>)
                      ELSE errcontext_msg(Fmt_s, <<SArg(ecall.context.s)>>)})

\* errfinish(level, ...) on the older protocol, errfinish(file, lineno,
\* funcname) on the newer.
Step_errfinish ==
    /\ UNCHANGED <<raiseVars, rowVars, spinVars, arenaVars>>
    /\ epc = "accepted"
    /\ pending = {}
    /\ LET ret == errfinish(ecall.level)
           args == IF OlderProtocol(pgVersionNum)
                   THEN {"level"}
                   ELSE {"file", "lineno", "funcname"}
       IN  /\ steps' = Append(steps, HostCall("errfinish", args, ret))
           /\ epc' = IF ret = "returned" THEN "guard" ELSE ret
    /\ UNCHANGED <<ecall, pending>>

\* if (__builtin_constant_p(level) && level >= ERROR) pg_unreachable(); or
\* if (level >= ERROR) pg_unreachable(); and the end of the function.
Step_guard ==
    /\ UNCHANGED <<raiseVars, rowVars, spinVars, arenaVars>>
    /\ epc = "guard"
    /\ \E o \in AfterFinish(haveConstantP, ecall.level) :
          /\ epc' = o.res
          /\ steps' = IF o.res = "unreachable"
                      THEN Append(steps, HostCall("pg_unreachable", {}, "none"))
                      ELSE steps
    /\ UNCHANGED <<ecall, pending>>

\* The caller goes on after a call that returned; the host goes on after
\* handling one that diverged.
Leave_pgx_ereport ==
    /\ UNCHANGED <<raiseVars, rowVars, spinVars, arenaVars>>
    /\ epc \in {"returned", "diverged"}
    /\ epc' = "idle"
    /\ ecall' = NoECall
    /\ pending' = {}
    /\ steps' = << >>

(***************************************************************************)
(* pgx_deconstruct_row_type (src/pgx-cshim/pgx-cshim.c).                   *)
(*                                                                         *)
(* A row-shape descriptor is a sequence of attributes, each dropped or     *)
(* not.  A packed row stores, for its first attributes (it may store fewer *)
(* than the descriptor has), a null flag and a value.  What is stored at a *)
(* dropped position is arbitrary.                                          *)
(***************************************************************************)
Datums == {0, 7}
TupDescs == UNION {[1..n -> [attisdropped : BOOLEAN]] : n \in 0..MaxCols}
Stored == {[isnull |-> TRUE, value |-> 0]} \cup {[isnull |-> FALSE, value |-> d] : d \in Datums}
Rows(tupdesc) == UNION {[1..k -> Stored] : k \in 0..Len(tupdesc)}

\* TupleDescAttr(tupdesc, i): attribute i, counted from 0.
TupleDescAttr(tupdesc, i) == tupdesc[i + 1]

\* The host's heap_getattr(tuple, attnum, tupdesc, &isnull), attnum counted
\* from 1: an attribute the tuple does not store, or stores as null, is null.
heap_getattr(tuple, attnum, tupdesc) ==
    IF attnum > Len(tuple) \/ tuple[attnum].isnull
    THEN [value |-> 0, isnull |-> TRUE]
    ELSE [value |-> tuple[attnum].value, isnull |-> FALSE]

\* palloc(n * sizeof(...)): n cells, none written yet.
Cell(v) == [init |-> TRUE, v |-> v]
palloc(n, v0) == [i \in 1..n |-> [init |-> FALSE, v |-> v0]]

\* for (int i = 0; i < natts; i++) { ... }: st holds the two arrays (C index
\* i is position i + 1) and the attribute numbers passed to heap_getattr.
\* The loop stopping one column early.
LoopBound_oneShort(natts) == natts - 1
LoopBound(natts) == natts

\* The loop body without the attisdropped test.
RowStep_noDroppedTest(tupdesc, tuple, i, st) ==
    LET r == heap_getattr(tuple, i + 1, tupdesc)
    IN  [st EXCEPT !.cols[i + 1] = Cell(r.value), !.ns[i + 1] = Cell(r.isnull),
                   !.calls = Append(@, i + 1)]

\* The loop body numbering attributes by the columns that are not dropped:
\* the attribute number skips the dropped columns before column i.
RowStep_attnumSkipsDropped(tupdesc, tuple, i, st) ==
    IF TupleDescAttr(tupdesc, i).attisdropped
    THEN [st EXCEPT !.cols[i + 1] = Cell(0), !.ns[i + 1] = Cell(TRUE)]
    ELSE LET attnum == i + 1 - Cardinality({j \in 0..(i - 1) :
                                               TupleDescAttr(tupdesc, j).attisdropped})
             r == heap_getattr(tuple, attnum, tupdesc)
         IN  [st EXCEPT !.cols[i + 1] = Cell(r.value), !.ns[i + 1] = Cell(r.isnull),
                        !.calls = Append(@, attnum)]

RowStep(tupdesc, tuple, i, st) ==
    IF TupleDescAttr(tupdesc, i).attisdropped
    THEN [st EXCEPT !.cols[i + 1] = Cell(0), !.ns[i + 1] = Cell(TRUE)]
    ELSE LET r == heap_getattr(tuple, i + 1, tupdesc)
         IN  [st EXCEPT !.cols[i + 1] = Cell(r.value), !.ns[i + 1] = Cell(r.isnull),
                        !.calls = Append(@, i + 1)]

RECURSIVE RowLoop(_, _, _, _)
RowLoop(tupdesc, tuple, i, st) ==
    IF i < LoopBound(Len(tupdesc))
    THEN RowLoop(tupdesc, tuple, i + 1, RowStep(tupdesc, tuple, i, st))
    ELSE st

pgx_deconstruct_row_type(tupdesc, row) ==
    LET natts == Len(tupdesc)
        st == RowLoop(tupdesc, row, 0,
                      [cols |-> palloc(natts, 0), ns |-> palloc(natts, FALSE),
                       calls |-> << >>])
    IN  [columns |-> st.cols, nulls |-> st.ns, calls |-> st.calls]

NoRowOut == [columns |-> << >>, nulls |-> << >>, calls |-> << >>]

InitRow ==
    /\ rowIn = [called |-> FALSE, tupdesc |-> << >>, row |-> << >>]
    /\ rowOut = NoRowOut

Call_pgx_deconstruct_row_type ==
    /\ UNCHANGED <<raiseVars, spinVars, arenaVars, stepVars>>
    /\ \E tupdesc \in TupDescs : \E row \in Rows(tupdesc) :
          /\ rowIn' = [called |-> TRUE, tupdesc |-> tupdesc, row |-> row]
          /\ rowOut' = pgx_deconstruct_row_type(tupdesc, row)

(***************************************************************************)
(* The spinlock wrappers pgx_SpinLock* (src/pgx-pg-sys/cshim/pgx-cshim.c)  *)
(* and pgrx_SpinLock* (src/pgrx-pg-sys/cshim/pgrx-cshim.c).                *)
(*                                                                         *)
(* A lock is an slock_t in host shared memory, 0 when free.  A handle is a *)
(* pointer to it: two handles of one lock hold the same address.  The      *)
(* memory of a lock that was never initialised is arbitrary.               *)
(***************************************************************************)
Locks == 1..NumLocks
Handles == {[id |-> h, lock |-> l] : h \in {"a", "b"}, l \in Locks}

\* The host's primitives (storage/spin.h) on the memory m.
SpinLockInit(m, lock) == [m EXCEPT ![lock] = 0]
SpinLockAcquire(m, lock) == [m EXCEPT ![lock] = 1]      \* once the lock is seen free
SpinLockRelease(m, lock) == [m EXCEPT ![lock] = 0]
SpinLockFree(m, lock) == m[lock] = 0

pgx_SpinLockInit(m, lock) == SpinLockInit(m, lock)
\* The acquire wrapper forwarding to the wrong primitive.
pgx_SpinLockAcquire_asInit(m, lock) == SpinLockInit(m, lock)
pgx_SpinLockAcquire(m, lock) == SpinLockAcquire(m, lock)
pgx_SpinLockRelease(m, lock) == SpinLockRelease(m, lock)
pgx_SpinLockFree(m, lock) == SpinLockFree(m, lock)

pgrx_SpinLockInit(m, lock) == SpinLockInit(m, lock)
pgrx_SpinLockAcquire(m, lock) == SpinLockAcquire(m, lock)
pgrx_SpinLockRelease(m, lock) == SpinLockRelease(m, lock)
pgrx_SpinLockFree(m, lock) == SpinLockFree(m, lock)

Wrappers == {"pgx", "pgrx"}
NoSpinOp == [op |-> "none", via |-> "none", handle |-> [id |-> "a", lock |-> 1],
             ret |-> FALSE]
SpinOp(op, w, h, ret) == [op |-> op, via |-> w, handle |-> h, ret |-> ret]
LockOp(op, id) == [op |-> op, id |-> id]

InitSpin ==
    /\ slock \in [Locks -> {0, 1}]
    /\ lastLockOp = [l \in Locks |-> LockOp("none", "a")]
    /\ spinOp = NoSpinOp

Call_SpinLockInit ==
    /\ UNCHANGED <<raiseVars, rowVars, arenaVars, stepVars>>
    /\ \E w \in Wrappers, h \in Handles :
          /\ slock' = IF w = "pgx" THEN pgx_SpinLockInit(slock, h.lock)
                      ELSE pgrx_SpinLockInit(slock, h.lock)
          /\ lastLockOp' = [lastLockOp EXCEPT ![h.lock] = LockOp("init", h.id)]
          /\ spinOp' = SpinOp("init", w, h, FALSE)

\* The host's acquire spins while the lock is taken: the call completes
\* from a state where the lock is free.
Call_SpinLockAcquire ==
    /\ UNCHANGED <<raiseVars, rowVars, arenaVars, stepVars>>
    /\ \E w \in Wrappers, h \in Handles :
          /\ SpinLockFree(slock, h.lock)
          /\ slock' = IF w = "pgx" THEN pgx_SpinLockAcquire(slock, h.lock)
                      ELSE pgrx_SpinLockAcquire(slock, h.lock)
          /\ lastLockOp' = [lastLockOp EXCEPT ![h.lock] = LockOp("acquire", h.id)]
          /\ spinOp' = SpinOp("acquire", w, h, FALSE)

Call_SpinLockRelease ==
    /\ UNCHANGED <<raiseVars, rowVars, arenaVars, stepVars>>
    /\ \E w \in Wrappers, h \in Handles :
          /\ slock' = IF w = "pgx" THEN pgx_SpinLockRelease(slock, h.lock)
                      ELSE pgrx_SpinLockRelease(slock, h.lock)
          /\ lastLockOp' = [lastLockOp EXCEPT ![h.lock] = LockOp("release", h.id)]
          /\ spinOp' = SpinOp("release", w, h, FALSE)

Call_SpinLockFree ==
    /\ UNCHANGED <<raiseVars, rowVars, arenaVars, stepVars>>
    /\ \E w \in Wrappers, h \in Handles :
          /\ spinOp' = SpinOp("isfree", w, h,
                              IF w = "pgx" THEN pgx_SpinLockFree(slock, h.lock)
                              ELSE pgrx_SpinLockFree(slock, h.lock))
          /\ UNCHANGED <<slock, lastLockOp>>

(***************************************************************************)
(* pgx_GetMemoryContextChunk (src/pgx-pg-sys/cshim/pgx-cshim.c) and        *)
(* pg_rs_bridge_GetMemoryContextChunk (src/bridge-c-shim/bridge-c-shim.c). *)
(*                                                                         *)
(* The host allocator keeps, in the word before each chunk, the arena the  *)
(* chunk belongs to; a freed chunk's word is reused by the allocator.      *)
(***************************************************************************)
Addrs == 1..NumChunks
Arenas == {"TopMemoryContext", "MessageContext"}
NoArena == "none"

\* The host's GetMemoryChunkContext(ptr): the header word of the chunk.
GetMemoryChunkContext(m, ptr) == m.header[ptr]

\* The wrappers: the arena returned, and the host memory after the call.
\* The wrapper answering with the current arena instead of the chunk's.
pgx_GetMemoryContextChunk_current(m, ptr) ==
    [ret |-> m.CurrentMemoryContext, mem |-> m]

pgx_GetMemoryContextChunk(m, ptr) ==
    [ret |-> GetMemoryChunkContext(m, ptr), mem |-> m]

pg_rs_bridge_GetMemoryContextChunk(m, ptr) ==
    [ret |-> GetMemoryChunkContext(m, ptr), mem |-> m]

NoArenaOp == [op |-> "none", via |-> "none", ptr |-> 1, ret |-> NoArena, again |-> FALSE]

InitArena ==
    /\ mem = [header |-> [a \in Addrs |-> "garbage"],
              CurrentMemoryContext |-> "TopMemoryContext"]
    /\ owner = [a \in Addrs |-> NoArena]
    /\ arenaOp = NoArenaOp
    /\ arenaSeq = 0

\* The host allocates a chunk in the current arena.
HostPalloc ==
    /\ UNCHANGED <<raiseVars, rowVars, spinVars, stepVars>>
    /\ \E a \in Addrs :
          /\ owner[a] = NoArena
          /\ mem' = [mem EXCEPT !.header[a] = mem.CurrentMemoryContext]
          /\ owner' = [owner EXCEPT ![a] = mem.CurrentMemoryContext]
    /\ arenaOp' = NoArenaOp
    /\ UNCHANGED arenaSeq

\* The host frees a chunk; its header word becomes a free-list link.
HostPfree ==
    /\ UNCHANGED <<raiseVars, rowVars, spinVars, stepVars>>
    /\ \E a \in Addrs :
          /\ owner[a] # NoArena
          /\ mem' = [mem EXCEPT !.header[a] = "garbage"]
          /\ owner' = [owner EXCEPT ![a] = NoArena]
    /\ arenaOp' = NoArenaOp
    /\ UNCHANGED arenaSeq

\* The host resets an arena: all its chunks are freed at once.
HostMemoryContextReset ==
    /\ UNCHANGED <<raiseVars, rowVars, spinVars, stepVars>>
    /\ \E c \in Arenas :
          /\ \E a \in Addrs : owner[a] = c
          /\ mem' = [mem EXCEPT !.header =
                        [a \in Addrs |-> IF owner[a] = c THEN "garbage" ELSE @[a]]]
          /\ owner' = [a \in Addrs |-> IF owner[a] = c THEN NoArena ELSE owner[a]]
    /\ arenaOp' = NoArenaOp
    /\ UNCHANGED arenaSeq

\* The host makes another arena current.
HostMemoryContextSwitchTo ==
    /\ UNCHANGED <<raiseVars, rowVars, spinVars, stepVars>>
    /\ \E c \in Arenas \ {mem.CurrentMemoryContext} :
          mem' = [mem EXCEPT !.CurrentMemoryContext = c]
    /\ arenaOp' = NoArenaOp
    /\ UNCHANGED <<owner, arenaSeq>>

\* A caller asks for the arena of a live allocation.
Call_GetMemoryContextChunk ==
    /\ UNCHANGED <<raiseVars, rowVars, spinVars, stepVars>>
    /\ \E w \in {"pgx", "pg_rs_bridge"}, ptr \in Addrs :
          /\ owner[ptr] # NoArena
          /\ LET r == IF w = "pgx" THEN pgx_GetMemoryContextChunk(mem, ptr)
                      ELSE pg_rs_bridge_GetMemoryContextChunk(mem, ptr)
             IN  /\ mem' = r.mem
                 /\ arenaOp' = [op |-> "lookup", via |-> w, ptr |-> ptr, ret |-> r.ret,
                                 again |-> (arenaOp.op = "lookup" /\ arenaOp.ptr = ptr)]
    /\ arenaSeq' = 1 - arenaSeq
    /\ UNCHANGED owner

(***************************************************************************)
(* Specifications.  The components share no state: each specification      *)
(* runs one of them and leaves the others in their initial state.          *)
(***************************************************************************)
IdleRaise ==
    /\ pgVersionNum = 130000
    /\ haveConstantP = TRUE
    /\ minMessages = 18
    /\ depth = 0
    /\ pc = "running"
    /\ call = NoCall
    /\ result = "none"
    /\ emitted = << >>
    /\ reached = 0
    /\ firstProtocol = "none"

IdleSpin ==
    /\ slock = [l \in Locks |-> 0]
    /\ lastLockOp = [l \in Locks |-> LockOp("none", "a")]
    /\ spinOp = NoSpinOp

Init == InitRaise /\ InitRow /\ IdleSpin /\ InitArena /\ IdleSteps
Next ==
    \/ CallerEnter
    \/ CallerReturn
    \/ CallerContinue
    \/ HostRecover
    \/ HostSetMinMessages
    \/ Call_pgx_ereport
    \/ Call_pgx_elog
    \/ Call_pgx_elog_error
    \/ Call_pgx_ereport_legacy
Spec == Init /\ [][Next]_vars

InitRowSpec == IdleRaise /\ InitRow /\ IdleSpin /\ InitArena /\ IdleSteps
NextRow == Call_pgx_deconstruct_row_type
SpecRow == InitRowSpec /\ [][NextRow]_vars

InitSpinSpec == IdleRaise /\ InitRow /\ InitSpin /\ InitArena /\ IdleSteps
NextSpin ==
    \/ Call_SpinLockInit
    \/ Call_SpinLockAcquire
    \/ Call_SpinLockRelease
    \/ Call_SpinLockFree
SpecSpin == InitSpinSpec /\ [][NextSpin]_vars

InitArenaSpec == IdleRaise /\ InitRow /\ IdleSpin /\ InitArena /\ IdleSteps
NextArena ==
    \/ HostPalloc
    \/ HostPfree
    \/ HostMemoryContextReset
    \/ HostMemoryContextSwitchTo
    \/ Call_GetMemoryContextChunk
SpecArena == InitArenaSpec /\ [][NextArena]_vars

\* A build, its host configured, with no call in progress.
InitStepsSpec ==
    /\ pgVersionNum \in Versions
    /\ haveConstantP \in BOOLEAN
    /\ minMessages \in MinMessages
    /\ depth = 0
    /\ pc = "running"
    /\ call = NoCall
    /\ result = "none"
    /\ emitted = << >>
    /\ reached = 0
    /\ firstProtocol = "none"
    /\ InitRow /\ IdleSpin /\ InitArena /\ IdleSteps
NextSteps ==
    \/ Enter_pgx_ereport
    \/ Step_pg_prevent_errno_in_scope
    \/ Step_errstart
    \/ Step_errcode
    \/ Step_errmsg
    \/ Step_errdetail
    \/ Step_errcontext_msg
    \/ Step_errfinish
    \/ Step_guard
    \/ Leave_pgx_ereport
SpecSteps == InitStepsSpec /\ [][NextSteps]_vars

(***************************************************************************)
(* Properties of the raise entry points.                                   *)
(***************************************************************************)
RaiseEntries == {"pgx_ereport", "pgx_elog", "pgx_elog_error", "pgx_ereport_legacy"}
Raised == call.entry \in RaiseEntries

\* C1: every pgx_ereport / pgx_elog call with a non-empty message and a
\* level below ERROR returns to its caller and produces exactly one log
\* record, whose severity, message, detail and context are the caller's,
\* unchanged.
C1_BelowErrorLoggedVerbatim ==
    (call.entry \in {"pgx_ereport", "pgx_elog"} /\ call.message.s # << >>
        /\ call.level < ERROR)
    => /\ result = "returned"
       /\ Len(emitted) = 1
       /\ emitted[1].elevel = call.level
       /\ emitted[1].message = call.message
       /\ emitted[1].detail = call.detail
       /\ emitted[1].context = call.context

\* C2: every raise call at ERROR or above never returns: the host's
\* divergence target is reached exactly once for the call, and the step
\* sequenced after the call in the caller cannot run.
C2_AtOrAboveErrorDiverges ==
    (Raised /\ call.level >= ERROR)
    => /\ result = "diverged"
       /\ reached = 1
       /\ pc = "recovering"
       /\ ~ENABLED CallerContinue

\* What a run of pgx_ereport logs and how it ends, for one build variant.
Logged(v, constp) ==
    {[res |-> o.res,
      text |-> IF o.recs = << >> THEN << >>
               ELSE <<o.recs[1].message, o.recs[1].detail, o.recs[1].context>>]
     : o \in pgx_ereport(v, constp, minMessages, call.level, call.code, call.message,
                         call.detail, call.funcname, call.file, call.lineno,
                         call.context)}

\* C3: for any descriptor, the older-protocol path and the newer-protocol
\* path of pgx_ereport, in each of their build variants, log the same
\* message, detail and context text and end the same way (return or diverge).
C3_ProtocolPathsAgree ==
    call.entry = "pgx_ereport"
    => \A v1 \in {v \in Versions : OlderProtocol(v)},
          v2 \in {v \in Versions : ~OlderProtocol(v)},
          k1 \in BOOLEAN, k2 \in BOOLEAN :
          Logged(v1, k1) = Logged(v2, k2)

\* C7 as stated: in every raise entry point an emitted record carries a
\* detail exactly when the caller supplied one and a context exactly when
\* the caller supplied one, and a call with an absent detail or context ends
\* as its severity alone dictates.
EndsAsSeverityDictates ==
    result = IF call.level >= ERROR THEN "diverged" ELSE "returned"

C7_Original_OptionalFieldsEveryEntry ==
    Raised
    => /\ \A i \in 1..Len(emitted) :
            /\ (emitted[i].detail # NULL) <=> (call.detail # NULL)
            /\ (emitted[i].context # NULL) <=> (call.context # NULL)
       /\ (call.detail = NULL \/ call.context = NULL) => EndsAsSeverityDictates

\* C7, amended: the eight-argument pgx_ereport carries a detail exactly when
\* the caller supplied one and a context exactly when the caller supplied
\* one; pgx_elog and pgx_elog_error carry neither; the six-argument
\* pgx_ereport never carries a detail and always carries a context, the
\* text file:line:column of its location arguments.  A call with an absent
\* detail or context ends as its severity alone dictates.
LocationText(c) ==
    c.file \o <<":">> \o IntToStr(c.lineno) \o <<":">> \o IntToStr(c.colno)

C7_OptionalFields ==
    Raised
    => /\ \A i \in 1..Len(emitted) :
            IF call.entry = "pgx_ereport_legacy"
            THEN /\ emitted[i].detail = NULL
                 /\ emitted[i].context = Ptr(LocationText(call))
            ELSE /\ (emitted[i].detail # NULL) <=> (call.detail # NULL)
                 /\ (emitted[i].context # NULL) <=> (call.context # NULL)
       /\ (call.detail = NULL \/ call.context = NULL) => EndsAsSeverityDictates

\* C7 witness: pgx_ereport was called with a detail and no context, and the
\* record it emitted carries the detail and no context.
C7_Witness ==
    /\ call.entry = "pgx_ereport"
    /\ call.detail # NULL
    /\ call.context = NULL
    /\ Len(emitted) = 1
    /\ emitted[1].detail = call.detail
    /\ emitted[1].context = NULL

\* C8: a raise at ERROR or above from nested caller frames transfers control
\* to the host's one recovery point: every pending frame is torn down, none
\* resumes, and the recovery point is reached exactly once.
C8_NestedRaiseUnwindsToRecoveryPoint ==
    (call.entry = "pgx_ereport" /\ call.level >= ERROR /\ call.preDepth >= 2)
    => /\ pc = "recovering"
       /\ depth = 0
       /\ reached = 1
       /\ ~ENABLED CallerContinue
       /\ ~ENABLED CallerReturn

\* C9: exactly one version epoch holds for the build's host version, every
\* pgx_ereport call speaks exactly one of the two protocols, and it is the
\* protocol the process's first call spoke.
EpochsOf(v) ==
    {e \in {10, 11, 12, 13} :
        \/ e = 10 /\ IS_PG_10(v)
        \/ e = 11 /\ IS_PG_11(v)
        \/ e = 12 /\ IS_PG_12(v)
        \/ e = 13 /\ IS_PG_13(v)}

C9_OneEpochOneProtocol ==
    /\ Cardinality(EpochsOf(pgVersionNum)) = 1
    /\ call.entry = "pgx_ereport"
       => /\ call.protocol \in {"older", "newer"}
          /\ call.protocol = firstProtocol
          /\ call.protocol = "older" <=> EpochsOf(pgVersionNum) \subseteq {11, 12}

\* C9 witness: a PG 10 build has made a pgx_ereport call, on the newer
\* protocol.
C9_Witness ==
    /\ IS_PG_10(pgVersionNum)
    /\ call.entry = "pgx_ereport"
    /\ call.protocol = "newer"
    /\ firstProtocol = "newer"

\* C13: the pg_unreachable() after errfinish in pgx_ereport is never
\* executed, in either protocol and with or without the
\* __builtin_constant_p test.  Below ERROR the guard is false in every
\* variant, so a call that gets to the guard returns; at ERROR or above
\* control never gets to the guard: the call has diverged (or the process
\* was lost while the report's fields were set) before it.
C13_UnreachableMarkerNeverExecuted ==
    call.entry = "pgx_ereport"
    => /\ result # "unreachable"
       /\ pc # "unreachable"
       /\ call.level < ERROR
            => \A o \in AfterFinish(haveConstantP, call.level) : o.res = "returned"
       /\ call.level >= ERROR => result \in {"diverged", "crashed"}

\* C13 witness: a build without the __builtin_constant_p test, whose guard
\* is level >= ERROR alone, made a pgx_ereport call at ERROR or above on
\* the older protocol; the call diverged in errfinish.
C13_Witness ==
    /\ call.entry = "pgx_ereport"
    /\ ~haveConstantP
    /\ call.protocol = "older"
    /\ call.level >= ERROR
    /\ result = "diverged"
    /\ Len(emitted) = 1
    /\ pc = "recovering"

\* The host calls one pgx_ereport call has made so far.
StepOps == {steps[i].op : i \in 1..Len(steps)}
At(op) == {i \in 1..Len(steps) : steps[i].op = op}
Before(a, b) == \A i \in At(a), j \in At(b) : i < j
AttachOps == {"errcode", "errmsg", "errdetail", "errcontext_msg"}
Location == {"file", "lineno", "funcname"}
Accepted == \E i \in At("errstart") : steps[i].ret = "true"
CallOver == epc \in {"returned", "diverged", "crashed", "unreachable"}

\* The order of the steps.  No host call is made twice.  On the newer
\* protocol: the errno reset first, then errstart, errcode, errmsg,
\* errdetail if a detail was given, errcontext_msg if a context was given,
\* then errfinish with the source location, none of them skipped.  On the
\* older protocol: errstart, with the level and the source location, before
\* every setter and before errfinish.  On both: no setter and no errfinish
\* unless errstart accepted the report.
StepsInOrder ==
    /\ \A op \in StepOps : Cardinality(At(op)) = 1
    /\ ~OlderProtocol(pgVersionNum)
        => /\ steps # << >> => steps[1].op = "pg_prevent_errno_in_scope"
           /\ Before("pg_prevent_errno_in_scope", "errstart")
           /\ Before("errstart", "errcode")
           /\ Before("errcode", "errmsg")
           /\ Before("errmsg", "errdetail")
           /\ Before("errmsg", "errcontext_msg")
           /\ Before("errdetail", "errcontext_msg")
           /\ \A op \in AttachOps : Before(op, "errfinish")
           /\ "errmsg" \in StepOps => "errcode" \in StepOps
           /\ "errdetail" \in StepOps => ecall.hasDetail /\ "errmsg" \in StepOps
           /\ "errcontext_msg" \in StepOps
                => /\ ecall.context # NULL
                   /\ "errmsg" \in StepOps
                   /\ ecall.hasDetail => "errdetail" \in StepOps
           /\ \A i \in At("errfinish") :
                /\ steps[i].args = Location
                /\ StepOps \cap AttachOps = Setters(ecall)
    /\ OlderProtocol(pgVersionNum)
        => /\ "pg_prevent_errno_in_scope" \notin StepOps
           /\ \A i \in At("errstart") : steps[i].args = {"level"} \cup Location
           /\ \A op \in AttachOps \cup {"errfinish"} : Before("errstart", op)
    /\ StepOps \cap (AttachOps \cup {"errfinish"}) # {} => Accepted

\* A report errstart accepted has had its one errfinish when the call is over.
OneFinishPerAcceptedStart ==
    (CallOver /\ Accepted) => Cardinality(At("errfinish")) = 1

\* C11: within one pgx_ereport call the host calls are made in a fixed
\* order (newer protocol: errno reset, errstart, errcode, errmsg, optional
\* errdetail, optional errcontext_msg, errfinish with the source location;
\* older protocol: errstart with level and source location before every
\* setter and errfinish); no setter and no errfinish happens unless errstart
\* accepted the report, and an accepted errstart is followed by exactly one
\* errfinish.
C11_HostStepsInFixedOrder == StepsInOrder /\ OneFinishPerAcceptedStart

(***************************************************************************)
(* Properties of pgx_deconstruct_row_type.                                 *)
(***************************************************************************)
RowN == Len(rowIn.tupdesc)
Dropped(i) == rowIn.tupdesc[i].attisdropped

\* C4: the values and the null flags returned each have exactly as many
\* entries as the descriptor has columns, whatever number of them is
\* dropped, and entry i of both is the one written for column i: the
\* placeholder and null for a dropped column, the row's value and null flag
\* at that position otherwise.
C4_TwoSequencesOfColumnCount ==
    rowIn.called
    => /\ Len(rowOut.columns) = RowN
       /\ Len(rowOut.nulls) = RowN
       /\ \A i \in 1..RowN :
            /\ rowOut.columns[i].init
            /\ rowOut.nulls[i].init
            /\ rowOut.nulls[i].v
                 = (Dropped(i) \/ i > Len(rowIn.row) \/ rowIn.row[i].isnull)
            /\ ~rowOut.nulls[i].v => rowOut.columns[i].v = rowIn.row[i].value

\* C4 witness: a descriptor of two columns, both dropped, gave two
\* sequences of two entries.
C4_Witness ==
    /\ rowIn.called
    /\ RowN = 2
    /\ \A i \in 1..RowN : Dropped(i)
    /\ Len(rowOut.columns) = 2
    /\ Len(rowOut.nulls) = 2

\* C5: a dropped column yields the placeholder 0 and null = true and the
\* host decoder is never called for it, whatever the row stores there; the
\* columns after it are still processed.
C5_DroppedColumnNeverDecoded ==
    rowIn.called
    => \A i \in 1..RowN :
          IF Dropped(i)
          THEN /\ rowOut.columns[i] = Cell(0)
               /\ rowOut.nulls[i] = Cell(TRUE)
               /\ \A k \in 1..Len(rowOut.calls) : rowOut.calls[k] # i
          ELSE /\ rowOut.columns[i].init
               /\ rowOut.nulls[i].init
               /\ \E k \in 1..Len(rowOut.calls) : rowOut.calls[k] = i

\* C5 witness: the first column is dropped, the row stores a non-null value
\* there, and a later column was decoded.
C5_Witness ==
    /\ rowIn.called
    /\ RowN >= 2
    /\ Dropped(1)
    /\ Len(rowIn.row) >= 1
    /\ ~rowIn.row[1].isnull
    /\ rowIn.row[1].value # 0
    /\ rowOut.columns[1] = Cell(0)
    /\ rowOut.nulls[1] = Cell(TRUE)
    /\ ~Dropped(2)
    /\ rowOut.calls = <<2>>

\* C12: for every column that is not dropped, the value and the null flag
\* returned at its position are exactly what heap_getattr gives for the
\* attribute number equal to that position (C index i, attribute i + 1) on
\* the same row and descriptor; heap_getattr is called once for each such
\* column, in column order, with that number, which dropped columns before
\* it do not shift.
NotDropped == {i \in 1..RowN : ~Dropped(i)}

C12_NonDroppedDecodedAtOwnPosition ==
    rowIn.called
    => /\ \A i \in NotDropped :
            LET r == heap_getattr(rowIn.row, i, rowIn.tupdesc)
            IN  /\ rowOut.columns[i] = Cell(r.value)
                /\ rowOut.nulls[i] = Cell(r.isnull)
       /\ Len(rowOut.calls) = Cardinality(NotDropped)
       /\ \A k \in 1..Len(rowOut.calls) : rowOut.calls[k] \in NotDropped
       /\ \A k \in 1..(Len(rowOut.calls) - 1) : rowOut.calls[k] < rowOut.calls[k + 1]

\* C12 witness: three columns, the middle one dropped, a row that stores no
\* null and stores 0 in the dropped position: the values are 7, the
\* placeholder, 7 and the null flags false, true, false, decoded as
\* attributes 1 and 3.
C12_Witness ==
    /\ rowIn.called
    /\ RowN = 3
    /\ ~Dropped(1) /\ Dropped(2) /\ ~Dropped(3)
    /\ rowIn.row = <<[isnull |-> FALSE, value |-> 7], [isnull |-> FALSE, value |-> 0],
                     [isnull |-> FALSE, value |-> 7]>>
    /\ rowOut.columns = <<Cell(7), Cell(0), Cell(7)>>
    /\ rowOut.nulls = <<Cell(FALSE), Cell(TRUE), Cell(FALSE)>>
    /\ rowOut.calls = <<1, 3>>

(***************************************************************************)
(* Properties of the spinlock wrappers.                                    *)
(***************************************************************************)
IsFreeVia(w, lock) ==
    IF w = "pgx" THEN pgx_SpinLockFree(slock, lock) ELSE pgrx_SpinLockFree(slock, lock)

\* C6: after an acquire through one handle, is-free through any handle of
\* the same lock, by either wrapper, is false, and after a release it is
\* true; an is-free call answers false when the last init / acquire /
\* release on its lock was an acquire and true when it was an init or a
\* release, whichever handle made that call; and its answer is read from
\* the host's lock word alone.
C6_SpinlockStateForwarded ==
    /\ spinOp.op = "acquire"
       => \A h \in Handles, w \in Wrappers :
             h.lock = spinOp.handle.lock => ~IsFreeVia(w, h.lock)
    /\ spinOp.op = "release"
       => \A h \in Handles, w \in Wrappers :
             h.lock = spinOp.handle.lock => IsFreeVia(w, h.lock)
    /\ spinOp.op = "isfree"
       => /\ spinOp.ret = (slock[spinOp.handle.lock] = 0)
          /\ lastLockOp[spinOp.handle.lock].op = "acquire" => ~spinOp.ret
          /\ lastLockOp[spinOp.handle.lock].op \in {"init", "release"} => spinOp.ret

\* C6 witness: a lock was acquired through one handle by pgx_SpinLockAcquire
\* and is-free through the other handle answered false.
C6_Witness ==
    /\ spinOp.op = "isfree"
    /\ lastLockOp[spinOp.handle.lock].op = "acquire"
    /\ lastLockOp[spinOp.handle.lock].id # spinOp.handle.id
    /\ ~spinOp.ret

(***************************************************************************)
(* Properties of pgx_GetMemoryContextChunk.                                *)
(***************************************************************************)
\* C10: a lookup of a live allocation returns the arena that owns it and
\* changes nothing in the host allocator; a lookup that repeats the lookup
\* before it returns the same arena.
C10_LookupIsPure ==
    [][arenaSeq' # arenaSeq
       => /\ mem' = mem
          /\ owner' = owner
          /\ arenaOp'.ret = owner[arenaOp'.ptr]
          /\ arenaOp'.again => arenaOp'.ret = arenaOp.ret]_vars

\* C10 witness: the arena of an allocation was looked up twice in a row
\* while another arena was current.
C10_Witness ==
    /\ arenaOp.op = "lookup"
    /\ arenaOp.again
    /\ arenaOp.ret = owner[arenaOp.ptr]
    /\ arenaOp.ret # mem.CurrentMemoryContext

====
